---- MODULE Spec2Model ----
(***************************************************************************)
(* Model of the Ninuki (five-in-a-row with bracket captures) GTP front end *)
(* of gtp_connection.py: the board array, capture processing, win          *)
(* detection and the command handlers that mutate or query them.           *)
(***************************************************************************)
EXTENDS Integers, Sequences, FiniteSets, TLC

VARIABLES
    size,            \* self.board.size
    board,           \* self.board.board : the border-padded 1-D array
    current_player,  \* self.board.current_player
    last_move,       \* self.board.last_move
    ko_recapture,    \* self.board.ko_recapture
    black_cap,       \* self.board.black_cap
    white_cap,       \* self.board.white_cap
    game_status,     \* self.game_status
    running,         \* FALSE once the session has ended (quit or a raised fault)
    cmd,             \* the handler the last line invoked and its arguments:
                     \* [name, args]; name is "" when the line invoked none,
                     \* and args is then the list of the line's elements
    response         \* what that command wrote to stdout: [frame, msg, moves]

vars == <<size, board, current_player, last_move, ko_recapture, black_cap,
          white_cap, game_status, running, cmd, response>>

grid == <<size, board, current_player, last_move, ko_recapture, black_cap, white_cap>>

(***************************************************************************)
(* board_base constants                                                    *)
(***************************************************************************)
EMPTY == 0
BLACK == 1
WHITE == 2
BORDER == 3
PASS == 0
NO_POINT == -1
MAXSIZE == 25
MINSIZE == 2
CAPTURE_WIN == 10

(***************************************************************************)
(* Bounds of the model                                                     *)
(***************************************************************************)
\* the larger of the two board sizes of the general session (Spec)
BigSize == 3
\* the board size of the session that builds runs in one column (SpecRun)
RunSize == 6
\* the board size of the session that makes captures in one column (SpecCap)
CapSize == 6
\* the board size of the session that applies cap_process to drawn boards (SpecRot)
RotSize == 7
\* SpecCap places stones while both capture counters are below this
MaxCap == 12

Sizes == {MINSIZE, BigSize}

(***************************************************************************)
(* Strings are sequences of character codes                                *)
(***************************************************************************)
lower(s) == [i \in 1..Len(s) |-> IF s[i] >= 65 /\ s[i] <= 90 THEN s[i] + 32 ELSE s[i]]

IsDigit(ch) == ch >= 48 /\ ch <= 57

RECURSIVE DigitsValue(_)
DigitsValue(s) ==
    IF Len(s) = 0 THEN 0
    ELSE 10 * DigitsValue(SubSeq(s, 1, Len(s) - 1)) + (s[Len(s)] - 48)

AllDigits(s) == Len(s) > 0 /\ \A i \in 1..Len(s) : IsDigit(s[i])

\* int(s) for a string without blanks: an optional sign, then digits; ok is
\* FALSE where Python raises ValueError
PyInt(s) ==
    IF AllDigits(s) THEN [ok |-> TRUE, val |-> DigitsValue(s)]
    ELSE IF Len(s) > 1 /\ s[1] = 45 /\ AllDigits(Tail(s))
    THEN [ok |-> TRUE, val |-> 0 - DigitsValue(Tail(s))]
    ELSE IF Len(s) > 1 /\ s[1] = 43 /\ AllDigits(Tail(s))
    THEN [ok |-> TRUE, val |-> DigitsValue(Tail(s))]
    ELSE [ok |-> FALSE, val |-> 0]

RECURSIVE PyStr(_)
\* str(n) for n >= 0
PyStr(n) == IF n < 10 THEN <<48 + n>> ELSE PyStr(n \div 10) \o <<48 + (n % 10)>>

STR_PASS == <<112, 97, 115, 115>>
STR_B == <<98>>
STR_W == <<119>>

\* s < t in Python's string order
RECURSIVE StrLess(_, _)
StrLess(s, t) ==
    IF Len(t) = 0 THEN FALSE
    ELSE IF Len(s) = 0 THEN TRUE
    ELSE IF s[1] # t[1] THEN s[1] < t[1]
    ELSE StrLess(Tail(s), Tail(t))

RECURSIVE InsertString(_, _)
\* the sorted list t with the string x put in its place
InsertString(x, t) ==
    IF Len(t) = 0 THEN <<x>>
    ELSE IF StrLess(x, t[1]) THEN <<x>> \o t
    ELSE <<t[1]>> \o InsertString(x, Tail(t))

RECURSIVE SortStrings(_)
\* sorted(list of strings)
SortStrings(l) ==
    IF Len(l) = 0 THEN <<>> ELSE InsertString(l[1], SortStrings(Tail(l)))

SeqToSet(s) == {s[i] : i \in 1..Len(s)}

(***************************************************************************)
(* Coordinates and the board array                                         *)
(***************************************************************************)
opponent(color) == WHITE + BLACK - color

coord_to_point(row, col, board_size) == (board_size + 1) * row + col

point_to_coord(point, boardsize) ==
    IF point = PASS THEN <<PASS, PASS>>
    ELSE <<point \div (boardsize + 1), point % (boardsize + 1)>>

board_array_size(n) == n * n + 3 * (n + 1)

row_start(row, n) == row * (n + 1) + 1

OnBoardPoints(n) == {coord_to_point(r, c, n) : r \in 1..n, c \in 1..n}

\* GoBoard.reset fails with InvalidSize for a size outside [2, 25]
valid_size(n) == MINSIZE <= n /\ n <= MAXSIZE

\* GoBoard.reset: the array after a reset
EmptyBoardArray(n) ==
    [p \in 0..(board_array_size(n) - 1) |->
        IF p \in OnBoardPoints(n) THEN EMPTY ELSE BORDER]

\* GoBoard.get_empty_points: ascending array indices
get_empty_points(b, n) ==
    SelectSeq([i \in 1..board_array_size(n) |-> i - 1], LAMBDA p : b[p] = EMPTY)

\* GoBoardUtil.get_twoD_board: rows 1..size copied to rows 0..size-1, then flipped
get_twoD_board(b, n) ==
    [r \in 0..(n - 1) |-> [c \in 0..(n - 1) |-> b[row_start(n - r, n) + c]]]

At(b2d, coord) == b2d[coord[1]][coord[2]]

is_within_board(coord, num_rows, num_cols) ==
    /\ 0 <= coord[1] /\ coord[1] < num_rows
    /\ 0 <= coord[2] /\ coord[2] < num_cols

\* current_coord of check_point_is_win and cap_process
current_coord(point, n) ==
    LET c == point_to_coord(point, n)
    IN <<(n - 1) - (c[1] - 1), c[2] - 1>>

\* column_letters[k] with Python's indexing (k = -1 is the last letter)
column_letter(k) ==
    IF k < 0 THEN 90 ELSE IF k < 8 THEN 65 + k ELSE 66 + k

\* format_point: ok is FALSE where it raises ValueError
format_point(move) ==
    IF move[1] = PASS THEN [ok |-> TRUE, str |-> <<80, 65, 83, 83>>]
    ELSE IF ~(0 <= move[1] /\ move[1] < MAXSIZE) \/ ~(0 <= move[2] /\ move[2] < MAXSIZE)
    THEN [ok |-> FALSE, str |-> <<>>]
    ELSE [ok |-> TRUE, str |-> <<column_letter(move[2] - 1)>> \o PyStr(move[1])]

\* move_to_coord: ok is FALSE where it raises ValueError
move_to_coord(point_str, board_size) ==
    LET s == lower(point_str)
        bad == [ok |-> FALSE, coord |-> <<0, 0>>]
    IN IF ~(MINSIZE <= board_size /\ board_size <= MAXSIZE) THEN bad
       ELSE IF s = STR_PASS THEN [ok |-> TRUE, coord |-> <<PASS, PASS>>]
       ELSE IF Len(s) = 0 THEN bad
       ELSE IF ~(97 <= s[1] /\ s[1] <= 122) \/ s[1] = 105 THEN bad
       ELSE LET col == IF s[1] < 105 THEN s[1] - 97 + 1 ELSE s[1] - 97
                row == PyInt(Tail(s))
            IN IF ~row.ok \/ row.val < 1 THEN bad
               ELSE IF ~(col <= board_size /\ row.val <= board_size) THEN bad
               ELSE [ok |-> TRUE, coord |-> <<row.val, col>>]

\* color_to_int: ok is FALSE where the lookup raises KeyError
color_to_int(c) ==
    IF c = STR_B THEN [ok |-> TRUE, color |-> BLACK]
    ELSE IF c = STR_W THEN [ok |-> TRUE, color |-> WHITE]
    ELSE IF c = <<101>> THEN [ok |-> TRUE, color |-> EMPTY]
    ELSE [ok |-> FALSE, color |-> BORDER]

(***************************************************************************)
(* check_point_is_win                                                      *)
(***************************************************************************)
int_to_color(num) ==
    IF num = 1 THEN "black" ELSE IF num = 2 THEN "white" ELSE "ERROR"

RECURSIVE UpDownLoop(_, _, _, _, _, _, _)
\* the "Up and Down" loop, from iteration i on: TRUE when it returns a winner
UpDownLoop(bord2D, n, cc, i, count, UP, DOWN) ==
    IF i > 5 THEN FALSE
    ELSE LET up_coord == <<cc[1], cc[2] + i>>
             down_coord == <<cc[1], cc[2] - i>>
             current_color == At(bord2D, cc)
             upHit == is_within_board(up_coord, n, n)
                      /\ current_color = At(bord2D, up_coord) /\ UP
             count1 == IF upHit THEN count + 1 ELSE count
             UP1 == IF upHit THEN UP ELSE FALSE
             downHit == is_within_board(down_coord, n, n)
                        /\ current_color = At(bord2D, down_coord) /\ DOWN
             count2 == IF downHit THEN count1 + 1 ELSE count1
             DOWN1 == IF downHit THEN DOWN ELSE FALSE
         IN IF count2 >= 5 THEN TRUE
            ELSE UpDownLoop(bord2D, n, cc, i + 1, count2, UP1, DOWN1)

RECURSIVE LRLoop(_, _, _, _, _, _, _, _)
\* the "L and R", "Diag 1" and "Diag 2" loops (step is the right-hand step):
\* the else branch of the left test clears R, and L is never cleared
LRLoop(bord2D, n, cc, step, i, count, L, R) ==
    IF i > 5 THEN FALSE
    ELSE LET right_coord == <<cc[1] + i * step[1], cc[2] + i * step[2]>>
             left_coord == <<cc[1] - i * step[1], cc[2] - i * step[2]>>
             current_color == At(bord2D, cc)
             rightHit == is_within_board(right_coord, n, n)
                         /\ current_color = At(bord2D, right_coord) /\ R
             count1 == IF rightHit THEN count + 1 ELSE count
             R1 == IF rightHit THEN R ELSE FALSE
             leftHit == is_within_board(left_coord, n, n)
                        /\ current_color = At(bord2D, left_coord) /\ L
             count2 == IF leftHit THEN count1 + 1 ELSE count1
             R2 == IF leftHit THEN R1 ELSE FALSE
         IN IF count2 >= 5 THEN TRUE
            ELSE LRLoop(bord2D, n, cc, step, i + 1, count2, L, R2)

\* "False" stands for Python's False
check_point_is_win(b, n, point) ==
    LET bord2D == get_twoD_board(b, n)
        cc == current_coord(point, n)
        current_color == At(bord2D, cc)
    IN IF UpDownLoop(bord2D, n, cc, 1, 1, TRUE, TRUE) THEN int_to_color(current_color)
       ELSE IF LRLoop(bord2D, n, cc, <<1, 0>>, 1, 1, TRUE, TRUE) THEN int_to_color(current_color)
       ELSE IF LRLoop(bord2D, n, cc, <<1, 1>>, 1, 1, TRUE, TRUE) THEN int_to_color(current_color)
       ELSE IF LRLoop(bord2D, n, cc, <<1, -1>>, 1, 1, TRUE, TRUE) THEN int_to_color(current_color)
       ELSE "False"

(***************************************************************************)
(* cap_process                                                             *)
(***************************************************************************)
\* the steps of u, d, r, l, ur, ul, dr, dl in the order their tests run
CapSteps == << <<0, 1>>, <<0, -1>>, <<1, 0>>, <<-1, 0>>,
               <<1, 1>>, <<-1, 1>>, <<1, -1>>, <<-1, -1>> >>

\* the neighbour list of one direction: the in-board coordinates at distance 1..3
nighbors(cc, step, n) ==
    SelectSeq([i \in 1..3 |-> <<cc[1] + i * step[1], cc[2] + i * step[2]>>],
              LAMBDA co : is_within_board(co, n, n))

\* the test of one direction, read from the 2-D copy taken on entry
cap_match(bord2D, nb, current_color) ==
    /\ Len(nb) = 3
    /\ At(bord2D, nb[1]) = At(bord2D, nb[2])
    /\ At(bord2D, nb[2]) = opponent(current_color)
    /\ At(bord2D, nb[3]) = current_color

\* a faulty variant of cap_target: the column is not shifted to 1-based
cap_target_unshifted(co, n) == coord_to_point(co[1] + 1, co[2], n)

\* the array index one removal writes: coord_to_point(nb[0] + 1, nb[1] + 1, size)
cap_target(co, n) == coord_to_point(co[1] + 1, co[2] + 1, n)

\* the removal and the counter update of one direction
cap_remove(st, nb, current_color, n) ==
    [board |-> [st.board EXCEPT ![cap_target(nb[1], n)] = EMPTY,
                                ![cap_target(nb[2], n)] = EMPTY],
     black_cap |-> IF current_color = 1 THEN st.black_cap + 2 ELSE st.black_cap,
     white_cap |-> IF current_color = 2 THEN st.white_cap + 2 ELSE st.white_cap]

\* a faulty variant of cap_step: the test reads the board as the removals of
\* the directions before have left it
cap_step_live(st, bord2D, nb, current_color, n) ==
    IF cap_match(get_twoD_board(st.board, n), nb, current_color)
    THEN cap_remove(st, nb, current_color, n)
    ELSE st

\* one of the 8 blocks: the test of a direction on the 2-D copy, then its removal
cap_step(st, bord2D, nb, current_color, n) ==
    IF cap_match(bord2D, nb, current_color)
    THEN cap_remove(st, nb, current_color, n)
    ELSE st

RECURSIVE cap_dirs_in(_, _, _, _, _, _, _)
\* the blocks of the directions steps[k], steps[k + 1], ... one after the other
cap_dirs_in(steps, st, bord2D, cc, current_color, n, k) ==
    IF k > Len(steps) THEN st
    ELSE cap_dirs_in(steps,
                     cap_step(st, bord2D, nighbors(cc, steps[k], n), current_color, n),
                     bord2D, cc, current_color, n, k + 1)

cap_dirs(st, bord2D, cc, current_color, n, k) ==
    cap_dirs_in(CapSteps, st, bord2D, cc, current_color, n, k)

\* cap_process(point) on the array b: the array and the counters it leaves
cap_process(b, n, point, bcap, wcap) ==
    LET bord2D == get_twoD_board(b, n)
        cc == current_coord(point, n)
        current_color == At(bord2D, cc)
    IN cap_dirs([board |-> b, black_cap |-> bcap, white_cap |-> wcap],
                bord2D, cc, current_color, n, 1)

(***************************************************************************)
(* Responses                                                               *)
(***************************************************************************)
\* respond: "= <payload>\n\n"; the payload is a fixed text or a list of points
respond(msg, moves) == [frame |-> "=", msg |-> msg, moves |-> moves]

\* error: "? <message>\n\n"
error(error_msg) == [frame |-> "?", msg |-> error_msg, moves |-> <<>>]

\* nothing was written to stdout
NoResponse == [frame |-> "", msg |-> "", moves |-> <<>>]

(***************************************************************************)
(* Command handlers                                                        *)
(***************************************************************************)
PointString(p, n) == format_point(point_to_coord(p, n)).str

\* a faulty variant of reset: the status of the game before is kept
reset_keeps_status(n) ==
    /\ UNCHANGED game_status
    /\ size' = n
    /\ board' = EmptyBoardArray(n)
    /\ current_player' = BLACK
    /\ last_move' = NO_POINT
    /\ ko_recapture' = NO_POINT
    /\ black_cap' = 0
    /\ white_cap' = 0

\* GtpConnection.reset, with GoBoard.reset of a valid size
reset(n) ==
    /\ game_status' = "playing"
    /\ size' = n
    /\ board' = EmptyBoardArray(n)
    /\ current_player' = BLACK
    /\ last_move' = NO_POINT
    /\ ko_recapture' = NO_POINT
    /\ black_cap' = 0
    /\ white_cap' = 0

clear_board_cmd(args) ==
    /\ cmd' = [name |-> "clear_board", args |-> args]
    /\ reset(size)
    /\ response' = respond("", <<>>)
    /\ UNCHANGED running

boardsize_cmd(args) ==
    /\ cmd' = [name |-> "boardsize", args |-> args]
    /\ LET n == PyInt(args[1])
       IN IF ~n.ok
          THEN \* int raises ValueError before reset is entered
               running' = FALSE /\ response' = NoResponse
               /\ UNCHANGED <<grid, game_status>>
          ELSE IF ~valid_size(n.val)
          THEN \* reset has set the status when GoBoard.reset raises
               game_status' = "playing" /\ running' = FALSE
               /\ response' = NoResponse /\ UNCHANGED grid
          ELSE reset(n.val) /\ response' = respond("", <<>>) /\ UNCHANGED running

\* the placement branch of play_cmd
place(color, move) ==
    LET cp == cap_process([board EXCEPT ![move] = color], size, move, black_cap, white_cap)
    IN /\ board' = cp.board
       /\ black_cap' = cp.black_cap
       /\ white_cap' = cp.white_cap
       /\ last_move' = move
       /\ current_player' = opponent(color)
       /\ UNCHANGED <<size, ko_recapture>>

\* a faulty variant of illegal_move: the refusal goes through error
illegal_move_as_error(msg) == error(msg)

\* the response of play_cmd to a move it does not make
illegal_move(msg) == respond(msg, <<>>)

\* a faulty variant of occupied: the test is left out
occupied_never(b, move) == FALSE

\* the occupancy test of play_cmd
occupied(b, move) == b[move] # EMPTY

\* a faulty variant of play_pass: the turn stays where it was
play_pass_keeps_turn(color) == UNCHANGED grid

\* the pass branch of play_cmd
play_pass(color) ==
    /\ current_player' = opponent(color)
    /\ UNCHANGED <<size, board, last_move, ko_recapture, black_cap, white_cap>>

play_cmd(args) ==
    LET board_color == lower(args[1])
    IN /\ cmd' = [name |-> "play", args |-> args]
       /\ UNCHANGED <<running, game_status>>
       /\ IF board_color # STR_B /\ board_color # STR_W
          THEN response' = illegal_move("illegal move: wrong color") /\ UNCHANGED grid
          ELSE LET color == color_to_int(board_color).color
               IN IF lower(args[2]) = STR_PASS
                  THEN play_pass(color) /\ response' = respond("", <<>>)
                  ELSE LET coord == move_to_coord(args[2], size)
                           move == coord_to_point(coord.coord[1], coord.coord[2], size)
                       IN IF ~coord.ok
                          THEN /\ response' = illegal_move("illegal move: wrong coordinate")
                               /\ UNCHANGED grid
                          ELSE IF current_player # color
                          THEN /\ response' = illegal_move("illegal move: wrong color")
                               /\ UNCHANGED grid
                          ELSE IF occupied(board, move)
                          THEN /\ response' = illegal_move("illegal move: occupied")
                               /\ UNCHANGED grid
                          ELSE place(color, move) /\ response' = respond("", <<>>)

\* a faulty variant of genmove_list: occupied points are not left out
genmove_list_occupied(b, n, ko) ==
    SelectSeq([i \in 1..board_array_size(n) |-> i - 1],
              LAMBDA x : b[x] # BORDER /\ ~(ko # -1 /\ x = ko))

\* the list genmove draws from: the empty points without the ko point
genmove_list(b, n, ko) ==
    SelectSeq(get_empty_points(b, n), LAMBDA x : ~(ko # -1 /\ x = ko))

\* draw is the set of points np.random.choice's result ranges over
genmove_cmd(args, draw) ==
    LET c == color_to_int(lower(args[1]))
        list_res == genmove_list(board, size, ko_recapture)
    IN /\ cmd' = [name |-> "genmove", args |-> args]
       /\ UNCHANGED game_status
       /\ IF ~c.ok
          THEN running' = FALSE /\ response' = NoResponse /\ UNCHANGED grid
          ELSE /\ UNCHANGED running
               /\ IF last_move # -1 /\ check_point_is_win(board, size, last_move) # "False"
                  THEN response' = respond("resign", <<>>) /\ UNCHANGED grid
                  ELSE IF Len(list_res) = 0
                  THEN response' = respond("pass", <<>>) /\ UNCHANGED grid
                  ELSE \E move \in SeqToSet(list_res) \cap draw :
                          LET cp == cap_process([board EXCEPT ![move] = c.color], size,
                                                move, black_cap, white_cap)
                          IN /\ board' = cp.board
                             /\ black_cap' = cp.black_cap
                             /\ white_cap' = cp.white_cap
                             /\ current_player' = opponent(c.color)
                             /\ last_move' = move
                             /\ response' = respond("", <<PointString(move, size)>>)
                             /\ UNCHANGED <<size, ko_recapture>>

\* a faulty variant of final_result: the test for a full board is left out
final_result_no_draw(b, n, lm, bcap, wcap, status) ==
    LET last_check == IF lm # -1 THEN check_point_is_win(b, n, lm) ELSE "False"
    IN IF last_check # "False" THEN [answer |-> last_check, status |-> last_check]
       ELSE IF bcap >= CAPTURE_WIN THEN [answer |-> "black", status |-> "black"]
       ELSE IF wcap >= CAPTURE_WIN THEN [answer |-> "white", status |-> "white"]
       ELSE [answer |-> "unknown", status |-> status]

\* the answer of gogui-rules_final_result and the game_status it leaves
final_result(b, n, lm, bcap, wcap, status) ==
    LET last_check == IF lm # -1 THEN check_point_is_win(b, n, lm) ELSE "False"
    IN IF last_check # "False" THEN [answer |-> last_check, status |-> last_check]
       ELSE IF bcap >= CAPTURE_WIN THEN [answer |-> "black", status |-> "black"]
       ELSE IF wcap >= CAPTURE_WIN THEN [answer |-> "white", status |-> "white"]
       ELSE IF Len(get_empty_points(b, n)) = 0 THEN [answer |-> "draw", status |-> "draw"]
       ELSE [answer |-> "unknown", status |-> status]

gogui_rules_final_result_cmd(args) ==
    LET r == final_result(board, size, last_move, black_cap, white_cap, game_status)
    IN /\ cmd' = [name |-> "gogui-rules_final_result", args |-> args]
       /\ game_status' = r.status
       /\ response' = respond(r.answer, <<>>)
       /\ UNCHANGED <<grid, running>>

\* the list gogui-rules_legal_moves answers
gogui_legal_list(b, n, ko, status) ==
    IF status = "playing"
    THEN LET empties == get_empty_points(b, n)
             list_res == [i \in 1..Len(empties) |-> PointString(empties[i], n)]
         IN IF ko # -1
            THEN SelectSeq(list_res, LAMBDA x : x # PointString(ko, n))
            ELSE list_res
    ELSE <<>>

gogui_rules_legal_moves_cmd(args) ==
    /\ cmd' = [name |-> "gogui-rules_legal_moves", args |-> args]
    /\ response' = respond("", gogui_legal_list(board, size, ko_recapture, game_status))
    /\ UNCHANGED <<grid, game_status, running>>

\* GoBoardUtil.generate_legal_moves: the empty points a stone may be put on
generate_legal_moves(b, n, ko, color) ==
    SelectSeq(get_empty_points(b, n), LAMBDA x : x # ko)

legal_moves_cmd(args) ==
    LET c == color_to_int(lower(args[1]))
        moves == generate_legal_moves(board, size, ko_recapture, c.color)
        gtp_moves == [i \in 1..Len(moves) |-> PointString(moves[i], size)]
    IN /\ cmd' = [name |-> "legal_moves", args |-> args]
       /\ UNCHANGED <<grid, game_status>>
       /\ IF ~c.ok
          THEN running' = FALSE /\ response' = NoResponse
          ELSE UNCHANGED running /\ response' = respond("", SortStrings(gtp_moves))

quit_cmd(args) ==
    /\ cmd' = [name |-> "quit", args |-> args]
    /\ response' = respond("", <<>>)
    /\ running' = FALSE
    /\ UNCHANGED <<grid, game_status>>

gogui_rules_board_size_cmd(args) ==
    /\ cmd' = [name |-> "gogui-rules_board_size", args |-> args]
    /\ response' = respond("", <<PyStr(size)>>)
    /\ UNCHANGED <<grid, game_status, running>>

\* a faulty variant of gogui_rules_side_to_move_cmd: the query hands the move on
gogui_rules_side_to_move_cmd_turns(args) ==
    /\ cmd' = [name |-> "gogui-rules_side_to_move", args |-> args]
    /\ response' = respond(IF current_player = BLACK THEN "black" ELSE "white", <<>>)
    /\ current_player' = opponent(current_player)
    /\ UNCHANGED <<size, board, last_move, ko_recapture, black_cap, white_cap,
                   game_status, running>>

gogui_rules_side_to_move_cmd(args) ==
    /\ cmd' = [name |-> "gogui-rules_side_to_move", args |-> args]
    /\ response' = respond(IF current_player = BLACK THEN "black" ELSE "white", <<>>)
    /\ UNCHANGED <<grid, game_status, running>>

\* the character gogui-rules_board writes for a cell: X, O or .
board_char(point) == IF point = BLACK THEN 88 ELSE IF point = WHITE THEN 79 ELSE 46

\* the lines of gogui-rules_board, the last row of the board first
gogui_rules_board_cmd(args) ==
    /\ cmd' = [name |-> "gogui-rules_board", args |-> args]
    /\ response' = respond("", [i \in 1..size |->
                        [c \in 1..size |->
                            board_char(board[row_start(size + 1 - i, size) + c - 1])]])
    /\ UNCHANGED <<grid, game_status, running>>

\* showboard: the rows of the 2-D copy, each cell as its digit
showboard_cmd(args) ==
    /\ cmd' = [name |-> "showboard", args |-> args]
    /\ response' = respond("", [r \in 1..size |->
                        [c \in 1..size |->
                            48 + get_twoD_board(board, size)[r - 1][c - 1]]])
    /\ UNCHANGED <<grid, game_status, running>>

\* "<white_cap> <black_cap>"
gogui_rules_captured_count_cmd(args) ==
    /\ cmd' = [name |-> "gogui-rules_captured_count", args |-> args]
    /\ response' = respond("", <<PyStr(white_cap), PyStr(black_cap)>>)
    /\ UNCHANGED <<grid, game_status, running>>

protocol_version_cmd(args) ==
    /\ cmd' = [name |-> "protocol_version", args |-> args]
    /\ response' = respond("2", <<>>)
    /\ UNCHANGED <<grid, game_status, running>>

gogui_rules_game_id_cmd(args) ==
    /\ cmd' = [name |-> "gogui-rules_game_id", args |-> args]
    /\ response' = respond("Ninuki", <<>>)
    /\ UNCHANGED <<grid, game_status, running>>

(***************************************************************************)
(* get_cmd: one line of input                                              *)
(***************************************************************************)
\* self.commands: the registered command names
commands ==
    {"protocol_version", "quit", "name", "boardsize", "showboard", "clear_board",
     "komi", "version", "known_command", "genmove", "list_commands", "play",
     "legal_moves", "gogui-rules_legal_moves", "gogui-rules_final_result",
     "gogui-rules_captured_count", "gogui-rules_game_id", "gogui-rules_board_size",
     "gogui-rules_side_to_move", "gogui-rules_board", "gogui-analyze_commands"}

\* self.argmap: the required number of arguments and the usage message
argmap ==
    [boardsize |-> [argnum |-> 1, usage |-> "Usage: boardsize INT"],
     komi |-> [argnum |-> 1, usage |-> "Usage: komi FLOAT"],
     known_command |-> [argnum |-> 1, usage |-> "Usage: known_command CMD_NAME"],
     genmove |-> [argnum |-> 1, usage |-> "Usage: genmove {w,b}"],
     play |-> [argnum |-> 2, usage |-> "Usage: play {b,w} MOVE"],
     legal_moves |-> [argnum |-> 1, usage |-> "Usage: legal_moves {w,b}"]]

\* a faulty variant of has_arg_error: only a missing argument is an error
has_arg_error_fewer(command_name, argnum) ==
    command_name \in DOMAIN argmap /\ argmap[command_name].argnum > argnum

\* has_arg_error without the error response it writes
has_arg_error(command_name, argnum) ==
    command_name \in DOMAIN argmap /\ argmap[command_name].argnum # argnum

\* self.commands[command_name](args); the handlers of the engine's name,
\* version, komi and command lists are not modelled and their lines are no
\* input of the model
call_command(command_name, args, draw) ==
    CASE command_name = "boardsize" -> boardsize_cmd(args)
      [] command_name = "clear_board" -> clear_board_cmd(args)
      [] command_name = "play" -> play_cmd(args)
      [] command_name = "genmove" -> genmove_cmd(args, draw)
      [] command_name = "legal_moves" -> legal_moves_cmd(args)
      [] command_name = "gogui-rules_legal_moves" -> gogui_rules_legal_moves_cmd(args)
      [] command_name = "gogui-rules_final_result" -> gogui_rules_final_result_cmd(args)
      [] command_name = "gogui-rules_captured_count" -> gogui_rules_captured_count_cmd(args)
      [] command_name = "gogui-rules_board_size" -> gogui_rules_board_size_cmd(args)
      [] command_name = "gogui-rules_side_to_move" -> gogui_rules_side_to_move_cmd(args)
      [] command_name = "gogui-rules_board" -> gogui_rules_board_cmd(args)
      [] command_name = "gogui-rules_game_id" -> gogui_rules_game_id_cmd(args)
      [] command_name = "showboard" -> showboard_cmd(args)
      [] command_name = "protocol_version" -> protocol_version_cmd(args)
      [] command_name = "quit" -> quit_cmd(args)
      [] OTHER -> FALSE

\* a line that invokes no handler: what it answers, and nothing else changes
no_handler(elements, answer) ==
    /\ cmd' = [name |-> "", args |-> elements]
    /\ response' = answer
    /\ UNCHANGED <<grid, game_status, running>>

\* command is [comment, label, elements]: whether the line starts with #, the
\* digits a regression test puts in front, and the words that follow them
get_cmd(command, draw) ==
    IF command.comment \/ Len(command.elements) = 0
    THEN no_handler(<<>>, NoResponse)
    ELSE LET elements == command.elements
             command_name == elements[1]
             args == Tail(elements)
         IN IF has_arg_error(command_name, Len(args))
            THEN no_handler(elements, error(argmap[command_name].usage))
            ELSE IF command_name \in commands
            THEN call_command(command_name, args, draw)
            ELSE no_handler(elements, error("Unknown command"))

(***************************************************************************)
(* Inputs of the model                                                     *)
(***************************************************************************)
\* "i1" (no column i), "z9" (off the board), "a" (no row)
BadMoveArgs == {<<105, 49>>, <<122, 57>>, <<97>>}

PointStrings(P, n) == {PointString(p, n) : p \in P}

\* the points play targets and genmove's random draw range over in Spec: the
\* whole board at the smallest size, the first row otherwise
Region(n) ==
    IF n = MINSIZE THEN OnBoardPoints(n)
    ELSE {coord_to_point(1, c, n) : c \in 1..n}

\* play's argument lists in Spec; the last two are "B a1" and "x a1"
PlayArgs(n) ==
    ({STR_B, STR_W} \X (PointStrings(Region(n), n) \cup {STR_PASS}))
    \cup ({STR_W} \X BadMoveArgs)
    \cup {<<<<66>>, <<97, 49>>>>, <<<<120>>, <<97, 49>>>>}

\* the points of the first column, where SpecRun builds its runs
RunColumn(n) == {coord_to_point(r, 1, n) : r \in 1..n}

\* play's argument lists in SpecRun: Black plays anywhere in the column,
\* White passes or plays the column's first point
RunPlayArgs(n) ==
    ({STR_B} \X (PointStrings(RunColumn(n), n) \cup {STR_PASS}))
    \cup {<<STR_W, STR_PASS>>, <<STR_W, PointString(coord_to_point(1, 1, n), n)>>}

\* the pair of points White fills in SpecCap: the second and third of the column
CapPair(n) == {coord_to_point(r, 1, n) : r \in {2, 3}}

\* play's argument lists in SpecCap: Black plays anywhere in the column, White
\* passes or plays a point of the pair
CapPlayArgs(n) ==
    ({STR_B} \X (PointStrings(RunColumn(n), n) \cup {STR_PASS}))
    \cup ({STR_W} \X (PointStrings(CapPair(n), n) \cup {STR_PASS}))

(***************************************************************************)
(* The session: one command line at a time                                 *)
(***************************************************************************)
InitSize(n) ==
    /\ size = n
    /\ board = EmptyBoardArray(n)
    /\ current_player = BLACK
    /\ last_move = NO_POINT
    /\ ko_recapture = NO_POINT
    /\ black_cap = 0
    /\ white_cap = 0
    /\ game_status = "playing"
    /\ running = TRUE
    /\ cmd = [name |-> "", args |-> <<>>]
    /\ response = NoResponse

Init == \E n \in Sizes : InitSize(n)

\* boardsize's arguments: the sizes of the session, "1", "26" and "x"
BoardsizeArgs == {PyStr(n) : n \in Sizes \cup {MINSIZE - 1, MAXSIZE + 1}} \cup {<<120>>}

Boardsize == running /\ \E a \in BoardsizeArgs : boardsize_cmd(<<a>>)

ClearBoard == running /\ clear_board_cmd(<<>>)

Play == running /\ \E a \in PlayArgs(size) : play_cmd(a)

Genmove == running /\ \E c \in {STR_B, STR_W, <<120>>} : genmove_cmd(<<c>>, Region(size))

FinalResult == running /\ gogui_rules_final_result_cmd(<<>>)

GoguiLegalMoves == running /\ gogui_rules_legal_moves_cmd(<<>>)

LegalMoves == running /\ \E c \in {STR_W, <<120>>} : legal_moves_cmd(<<c>>)

Quit == running /\ quit_cmd(<<>>)

\* the lines GetCmd reads: wrong argument counts, unknown commands, a blank
\* line, a comment, and well-formed lines with and without a label
Lines(n) ==
    LET a1 == PointString(coord_to_point(1, 1, n), n)
        words == { <<"play", STR_B>>, <<"play", STR_B, a1, a1>>,
                   <<"boardsize">>, <<"boardsize", PyStr(n), PyStr(n)>>,
                   <<"genmove">>, <<"legal_moves", STR_W, STR_W>>,
                   <<"foo">>, <<"play_move", STR_B, a1>>, <<>>,
                   <<"clear_board", STR_B>>, <<"play", STR_B, a1>>,
                   <<"protocol_version">>, <<"gogui-rules_game_id">> }
    IN {[comment |-> FALSE, label |-> <<>>, elements |-> w] : w \in words}
       \cup {[comment |-> FALSE, label |-> PyStr(n), elements |-> <<"play", STR_B, a1>>],
             [comment |-> FALSE, label |-> PyStr(n), elements |-> <<"play", STR_B>>],
             [comment |-> TRUE, label |-> <<>>, elements |-> <<"play", STR_B, a1>>]}

GetCmd == running /\ \E l \in Lines(size) : get_cmd(l, Region(size))

BoardSizeQuery == running /\ gogui_rules_board_size_cmd(<<>>)

SideToMove == running /\ gogui_rules_side_to_move_cmd(<<>>)

BoardQuery == running /\ gogui_rules_board_cmd(<<>>)

Showboard == running /\ showboard_cmd(<<>>)

CapturedCount == running /\ gogui_rules_captured_count_cmd(<<>>)

Next ==
    \/ Boardsize
    \/ ClearBoard
    \/ Play
    \/ Genmove
    \/ FinalResult
    \/ GoguiLegalMoves
    \/ LegalMoves
    \/ Quit
    \/ GetCmd
    \/ BoardSizeQuery
    \/ SideToMove
    \/ BoardQuery
    \/ Showboard
    \/ CapturedCount

Spec == Init /\ [][Next]_vars

(***************************************************************************)
(* The session that builds runs in the first column of a RunSize board     *)
(***************************************************************************)
RunInit == InitSize(RunSize)

RunPlay == running /\ \E a \in RunPlayArgs(size) : play_cmd(a)

RunNext ==
    \/ RunPlay
    \/ FinalResult
    \/ GoguiLegalMoves
    \/ ClearBoard

SpecRun == RunInit /\ [][RunNext]_vars

(***************************************************************************)
(* The session that makes captures in the first column of a CapSize board  *)
(***************************************************************************)
CapInit == InitSize(CapSize)

CapPlay ==
    /\ running
    /\ black_cap < MaxCap /\ white_cap < MaxCap
    /\ \E a \in CapPlayArgs(size) : play_cmd(a)

\* genmove in SpecCap: the random draw is the last point of the column
CapGenmove ==
    /\ running
    /\ \E c \in {STR_B, STR_W} :
          genmove_cmd(<<c>>, {coord_to_point(size, 1, size)})

CapNext ==
    \/ CapPlay
    \/ CapGenmove
    \/ FinalResult

SpecCap == CapInit /\ [][CapNext]_vars

(***************************************************************************)
(* format_point applied to every coordinate pair of the largest board      *)
(***************************************************************************)
PointInit == InitSize(MINSIZE)

\* format_point(move): the string it returns, or no answer where it raises
FormatPoint ==
    \E row \in 1..MAXSIZE, col \in 1..MAXSIZE :
        LET f == format_point(<<row, col>>)
        IN /\ cmd' = [name |-> "format_point", args |-> <<row, col>>]
           /\ response' = IF f.ok THEN respond("", <<f.str>>) ELSE NoResponse
           /\ UNCHANGED <<grid, game_status, running>>

PointNext == FormatPoint

SpecPoint == PointInit /\ [][PointNext]_vars

(***************************************************************************)
(* What the claims speak of, in board coordinates (row, col), 1-based      *)
(***************************************************************************)
OnBoard(row, col, n) == 1 <= row /\ row <= n /\ 1 <= col /\ col <= n

PointAt(row, col, n) == row * (n + 1) + col

RowOf(p, n) == p \div (n + 1)

ColOf(p, n) == p % (n + 1)

Directions == {d \in (-1..1) \X (-1..1) : d # <<0, 0>>}

Axes == {<<0, 1>>, <<1, 0>>, <<1, 1>>, <<1, -1>>}

\* the colour at distance k from p in direction d, BORDER off the board
Toward(b, n, p, d, k) ==
    LET row == RowOf(p, n) + k * d[1]
        col == ColOf(p, n) + k * d[2]
    IN IF OnBoard(row, col, n) THEN b[PointAt(row, col, n)] ELSE BORDER

\* a stone of colour C at p brackets a pair in direction d
Brackets(b, n, p, C, d) ==
    /\ Toward(b, n, p, d, 1) = opponent(C)
    /\ Toward(b, n, p, d, 2) = opponent(C)
    /\ Toward(b, n, p, d, 3) = C

\* the points a stone of colour C put on p captures
Captured(b, n, p, C) ==
    {PointAt(RowOf(p, n) + k * d[1], ColOf(p, n) + k * d[2], n) :
        <<d, k>> \in {x \in Directions \X {1, 2} : Brackets(b, n, p, C, x[1])}}

\* the board after colour C is put on the empty point p of b
AfterPlacement(b, n, p, C) ==
    LET captured == Captured(b, n, p, C)
    IN [q \in DOMAIN b |-> IF q = p THEN C ELSE IF q \in captured THEN EMPTY ELSE b[q]]

\* the stones that placement captures: two for each bracketing direction
CaptureCount(b, n, p, C) == 2 * Cardinality({d \in Directions : Brackets(b, n, p, C, d)})

RECURSIVE Extension(_, _, _, _, _)
\* the stones of the colour of p that follow p in direction d without a gap
Extension(b, n, p, d, k) ==
    IF Toward(b, n, p, d, k) = b[p] THEN 1 + Extension(b, n, p, d, k + 1) ELSE 0

RunLength(b, n, p, d) ==
    1 + Extension(b, n, p, d, 1) + Extension(b, n, p, <<-d[1], -d[2]>>, 1)

\* the stone on p lies in an unbroken run of five or more
HasFive(b, n, p) ==
    b[p] \in {BLACK, WHITE} /\ \E d \in Axes : RunLength(b, n, p, d) >= 5

ColorName(C) == IF C = BLACK THEN "black" ELSE "white"

EmptyPoints(b, n) == {p \in OnBoardPoints(n) : b[p] = EMPTY}

\* the game is decided: a five through the last move, ten captures, a full board
Decided ==
    \/ last_move # NO_POINT /\ HasFive(board, size, last_move)
    \/ black_cap >= CAPTURE_WIN
    \/ white_cap >= CAPTURE_WIN
    \/ EmptyPoints(board, size) = {}

\* the colour a play command names, EMPTY when it names none
ArgColor(a) ==
    IF a \in {<<98>>, <<66>>} THEN BLACK ELSE IF a \in {<<119>>, <<87>>} THEN WHITE ELSE EMPTY

IsPass(a) == lower(a) = STR_PASS

\* a names a point of the board of size n
NamesPoint(a, n) == \E p \in OnBoardPoints(n) : lower(a) = lower(PointString(p, n))

NamedPoint(a, n) == CHOOSE p \in OnBoardPoints(n) : lower(a) = lower(PointString(p, n))

\* c, answered r, put a stone on the board
Placed(c, r) ==
    \/ c.name = "play" /\ ~IsPass(c.args[2]) /\ r.frame = "=" /\ r.msg = ""
    \/ c.name = "genmove" /\ Len(r.moves) = 1

PlacedPoint(c, r, n) ==
    IF c.name = "play" THEN NamedPoint(c.args[2], n) ELSE NamedPoint(r.moves[1], n)

\* the board a legal-move answer names
AnsweredPoints(r, n) == {NamedPoint(r.moves[i], n) : i \in 1..Len(r.moves)}

(***************************************************************************)
(* Claims                                                                  *)
(***************************************************************************)
\* C1: a placement of colour C at p empties exactly the pairs that p brackets
\* in the 8 directions, adds 2 to C's counter for each, and changes no other cell.
C1_CaptureExact ==
    [][Placed(cmd', response') =>
        LET p == PlacedPoint(cmd', response', size)
            C == ArgColor(cmd'.args[1])
        IN /\ board' = AfterPlacement(board, size, p, C)
           /\ black_cap' = black_cap + (IF C = BLACK THEN CaptureCount(board, size, p, C) ELSE 0)
           /\ white_cap' = white_cap + (IF C = WHITE THEN CaptureCount(board, size, p, C) ELSE 0)
      ]_vars

\* C2: when the last-played stone lies in an unbroken run of five or more of its
\* colour, check_point_is_win returns that colour and it is the final result.
C2_FiveWins ==
    (last_move # NO_POINT /\ HasFive(board, size, last_move)) =>
        /\ check_point_is_win(board, size, last_move) = ColorName(board[last_move])
        /\ final_result(board, size, last_move, black_cap, white_cap, game_status).answer
               = ColorName(board[last_move])

\* C3: check_point_is_win returns a winner only when the last-played stone lies
\* in an unbroken run of five or more; stones beyond a gap never count.
C3_WinOnlyFive ==
    (last_move # NO_POINT /\ check_point_is_win(board, size, last_move) # "False") =>
        HasFive(board, size, last_move)

\* C4: once the game is decided, play of a board point is rejected and changes
\* no cell, no counter, not last_move and not current_player.
C4_NoPlayAfterEnd ==
    [][(Decided /\ cmd'.name = "play" /\ ~IsPass(cmd'.args[2])) =>
        /\ response'.msg # ""
        /\ UNCHANGED <<board, black_cap, white_cap, last_move, current_player>>
      ]_vars

\* C5: gogui-rules_legal_moves answers the empty points without the ko point
\* while the game is being played, and nothing once the game is decided.
C5_LegalMoves ==
    cmd.name = "gogui-rules_legal_moves" =>
        AnsweredPoints(response, size) =
            IF Decided THEN {} ELSE EmptyPoints(board, size) \ {ko_recapture}

\* C6: once gogui-rules_final_result has answered black, white or draw, every
\* later gogui-rules_final_result of the same game gives that answer.
C6_ResultStays ==
    [][(game_status \in {"black", "white", "draw"}
        /\ cmd'.name = "gogui-rules_final_result") =>
            response'.msg = game_status
      ]_vars

IllegalMessages ==
    {"illegal move: wrong color", "illegal move: wrong coordinate", "illegal move: occupied"}

\* c is a play of a board point that is illegal on board b with cp on move:
\* not its turn, not a point of the board, or an occupied point
IllegalPlay(c, b, n, cp) ==
    /\ c.name = "play"
    /\ ArgColor(c.args[1]) # EMPTY
    /\ ~IsPass(c.args[2])
    /\ \/ ArgColor(c.args[1]) # cp
       \/ ~NamesPoint(c.args[2], n)
       \/ b[NamedPoint(c.args[2], n)] # EMPTY

\* C7: play C of a board point or of pass while C is not on move fails as a
\* wrong-colour error and leaves cells, counters, last_move and current_player.
C7_WrongColourRejected ==
    [][(/\ cmd'.name = "play"
        /\ ArgColor(cmd'.args[1]) # EMPTY
        /\ ArgColor(cmd'.args[1]) # current_player
        /\ (IsPass(cmd'.args[2]) \/ NamesPoint(cmd'.args[2], size))) =>
            /\ response'.msg = "illegal move: wrong color"
            /\ UNCHANGED <<board, black_cap, white_cap, last_move, current_player>>
      ]_vars

C9_RejectedPlayChangesNothing ==
    [][(/\ cmd'.name = "play"
        /\ ArgColor(cmd'.args[1]) = current_player
        /\ ~IsPass(cmd'.args[2])
        /\ \/ ~NamesPoint(cmd'.args[2], size)
           \/ board[NamedPoint(cmd'.args[2], size)] # EMPTY) =>
            /\ response'.msg \in IllegalMessages
            /\ UNCHANGED <<grid, game_status>>
      ]_vars

C9_Witness ==
    /\ cmd.name = "play"
    /\ ArgColor(cmd.args[1]) = current_player
    /\ NamesPoint(cmd.args[2], size)
    /\ board[NamedPoint(cmd.args[2], size)] # EMPTY
    /\ response.msg = "illegal move: occupied"

\* C10: play C pass by the player on move C gives the move to the opponent of C
\* and changes no cell, no counter, not last_move and not the status.
C10_PassOnlyTurns ==
    [][(/\ cmd'.name = "play"
        /\ ArgColor(cmd'.args[1]) = current_player
        /\ IsPass(cmd'.args[2])) =>
            /\ current_player' = opponent(current_player)
            /\ UNCHANGED <<size, board, black_cap, white_cap, last_move,
                           ko_recapture, game_status>>
      ]_vars

C10_Witness ==
    /\ cmd.name = "play"
    /\ IsPass(cmd.args[2])
    /\ ArgColor(cmd.args[1]) # EMPTY
    /\ current_player = opponent(ArgColor(cmd.args[1]))
    /\ last_move # NO_POINT
    /\ response = respond("", <<>>)

\* the number of stones on the board
NonEmptyCount(b, n) == Cardinality({p \in OnBoardPoints(n) : b[p] # EMPTY})

\* the capture counter of colour C
CapOf(C, bcap, wcap) == IF C = BLACK THEN bcap ELSE wcap

\* C11: right after a placement of colour C at p by play or genmove, captures
\* applied, p still holds C, last_move is p and the opponent of C is on move.
C11_MoverStoneStays ==
    [][Placed(cmd', response') =>
        LET p == PlacedPoint(cmd', response', size)
            C == ArgColor(cmd'.args[1])
        IN /\ board'[p] = C
           /\ last_move' = p
           /\ current_player' = opponent(C)
      ]_vars

\* C12: a placement changes the number of stones on the board by +1 - k, where
\* k, the stones its captures removed, is two for each firing direction: never
\* an odd number.
C12_StoneCountParity ==
    [][Placed(cmd', response') =>
        \E k \in {2 * j : j \in 0..8} :
            /\ NonEmptyCount(board', size) = NonEmptyCount(board, size) + 1 - k
            /\ CapOf(ArgColor(cmd'.args[1]), black_cap', white_cap')
                  = CapOf(ArgColor(cmd'.args[1]), black_cap, white_cap) + k
      ]_vars

\* C13: once the placement of colour C has brought C's capture counter to 10 or
\* more, gogui-rules_final_result answers C.
C13_CaptureThresholdWins ==
    (Placed(cmd, response)
     /\ CapOf(ArgColor(cmd.args[1]), black_cap, white_cap) >= CAPTURE_WIN) =>
        final_result(board, size, last_move, black_cap, white_cap, game_status).answer
            = ColorName(ArgColor(cmd.args[1]))

\* C15: gogui-rules_final_result answers black, white, draw or unknown and
\* nothing else, whatever boardsize, clear_board, play and genmove did before.
C15_ResultVocabulary ==
    cmd.name = "gogui-rules_final_result" =>
        response.msg \in {"black", "white", "draw", "unknown"}

\* the position is decided against colour C: the opponent of C has a five
\* through the last move or ten captures
DecidedAgainst(C) ==
    \/ /\ last_move # NO_POINT
       /\ board[last_move] = opponent(C)
       /\ HasFive(board, size, last_move)
    \/ CapOf(opponent(C), black_cap, white_cap) >= CAPTURE_WIN

\* C16: genmove C answers resign and changes nothing when the position is
\* decided against C, and answers pass and changes nothing when no legal
\* point remains.
C16_GenmoveResignOrPass ==
    [][(cmd'.name = "genmove" /\ ArgColor(cmd'.args[1]) # EMPTY) =>
        LET C == ArgColor(cmd'.args[1])
        IN /\ DecidedAgainst(C) =>
                (response'.msg = "resign" /\ UNCHANGED <<grid, game_status>>)
           /\ (~DecidedAgainst(C) /\ EmptyPoints(board, size) \ {ko_recapture} = {}) =>
                (response'.msg = "pass" /\ UNCHANGED <<grid, game_status>>)
      ]_vars

C17_GenmoveAsPlay ==
    [][(/\ cmd'.name = "genmove"
        /\ Len(response'.moves) = 1
        /\ ArgColor(cmd'.args[1]) = current_player) =>
            LET p == NamedPoint(response'.moves[1], size)
            IN /\ board[p] = EMPTY
               /\ p # ko_recapture
               /\ place(current_player, p)
      ]_vars

C17_Witness ==
    /\ cmd = [name |-> "genmove", args |-> <<STR_B>>]
    /\ Len(response.moves) = 1
    /\ NonEmptyCount(board, size) = 1
    /\ last_move = NamedPoint(response.moves[1], size)
    /\ board[last_move] = BLACK
    /\ current_player = WHITE

\* C18: genmove C while C is not on move places no stone: cells, counters,
\* last_move and current_player stay as they were (so no two stones of one
\* colour follow each other without a pass in between).
C18_GenmoveOffTurn ==
    [][(/\ cmd'.name = "genmove"
        /\ ArgColor(cmd'.args[1]) # EMPTY
        /\ ArgColor(cmd'.args[1]) # current_player) =>
            UNCHANGED <<board, black_cap, white_cap, last_move, current_player>>
      ]_vars

\* a names an integer outside [2, 25]
NamesBadSize(a) == PyInt(a).ok /\ ~(MINSIZE <= PyInt(a).val /\ PyInt(a).val <= MAXSIZE)

\* C19: boardsize N with N outside [2, 25] is answered with an error response
\* and leaves cells, size, counters, current_player, last_move and the status.
C19_BadSizeRejected ==
    [][(cmd'.name = "boardsize" /\ NamesBadSize(cmd'.args[1])) =>
            /\ response'.frame = "?"
            /\ UNCHANGED <<grid, game_status>>
      ]_vars

\* C20: boardsize N with N in [2, 25], and clear_board at the current size,
\* in any state leave N*N Empty cells, both counters 0, Black on move, no last
\* move and the status playing: play is accepted on every point again and
\* gogui-rules_final_result answers unknown.
C20_ResetFresh ==
    [][(\/ cmd'.name = "clear_board"
        \/ cmd'.name = "boardsize" /\ PyInt(cmd'.args[1]).ok
           /\ ~NamesBadSize(cmd'.args[1])) =>
            LET N == IF cmd'.name = "clear_board" THEN size ELSE PyInt(cmd'.args[1]).val
            IN /\ size' = N
               /\ Cardinality(EmptyPoints(board', N)) = N * N
               /\ NonEmptyCount(board', N) = 0
               /\ black_cap' = 0 /\ white_cap' = 0
               /\ current_player' = BLACK
               /\ last_move' = NO_POINT
               /\ game_status' = "playing"
               /\ \A p \in OnBoardPoints(N) :
                     /\ move_to_coord(PointString(p, N), N).ok
                     /\ ~occupied(board', p)
               /\ final_result(board', N, last_move', black_cap', white_cap',
                               game_status').answer = "unknown"
      ]_vars

C20_Witness ==
    /\ cmd.name = "boardsize"
    /\ response = respond("", <<>>)
    /\ size = BigSize
    /\ NonEmptyCount(board, size) = 0
    /\ game_status = "playing"
    /\ running

QueryNames ==
    {"gogui-rules_board_size", "gogui-rules_side_to_move", "gogui-rules_board",
     "showboard", "gogui-rules_captured_count"}

\* C24: gogui-rules_board_size, gogui-rules_side_to_move, gogui-rules_board,
\* showboard and gogui-rules_captured_count only read: cells, counters,
\* current_player, last_move and the status are the same after as before.
C24_QueriesArePure ==
    [][cmd'.name \in QueryNames =>
            UNCHANGED <<size, board, black_cap, white_cap, current_player,
                        last_move, ko_recapture, game_status>>
      ]_vars

C24_Witness ==
    /\ cmd.name = "gogui-rules_side_to_move"
    /\ response = respond("white", <<>>)
    /\ current_player = WHITE
    /\ last_move # NO_POINT

\* the commands with a required number of arguments, and that number
RequiredArgs ==
    [boardsize |-> 1, komi |-> 1, known_command |-> 1, genmove |-> 1, play |-> 2,
     legal_moves |-> 1]

UsageError ==
    [boardsize |-> "Usage: boardsize INT", komi |-> "Usage: komi FLOAT",
     known_command |-> "Usage: known_command CMD_NAME",
     genmove |-> "Usage: genmove {w,b}", play |-> "Usage: play {b,w} MOVE",
     legal_moves |-> "Usage: legal_moves {w,b}"]

\* C21: a line naming a registered command with another number of arguments
\* than it requires is answered with that command's usage error and reaches no
\* handler; a line naming an unknown command is answered with the generic
\* error; either way cells, counters, current_player, last_move and the
\* status stay as they were and the session goes on.
C21_DispatchErrors ==
    [][/\ cmd'.name \in DOMAIN RequiredArgs =>
              Len(cmd'.args) = RequiredArgs[cmd'.name]
       /\ (cmd'.name = "" /\ Len(cmd'.args) > 0) =>
              LET command_name == cmd'.args[1]
                  argnum == Len(cmd'.args) - 1
              IN /\ \/ /\ command_name \in DOMAIN RequiredArgs
                       /\ argnum # RequiredArgs[command_name]
                       /\ response' = error(UsageError[command_name])
                    \/ /\ command_name \notin commands
                       /\ response' = error("Unknown command")
                 /\ UNCHANGED <<grid, game_status>>
                 /\ running'
      ]_vars

C21_Witness ==
    /\ cmd.name = ""
    /\ Len(cmd.args) = 4
    /\ cmd.args[1] = "play"
    /\ response = error("Usage: play {b,w} MOVE")
    /\ last_move # NO_POINT
    /\ running

\* C22: for every (row, col) with 1 <= row, col <= 25, format_point succeeds
\* and move_to_coord of its result on a board of size 25 gives (row, col) back;
\* the column letters are A-Z without I: column 9 is J, column 25 is Z.
C22_PointRoundTrip ==
    cmd.name = "format_point" =>
        /\ response.frame = "="
        /\ move_to_coord(response.moves[1], MAXSIZE) = [ok |-> TRUE, coord |-> cmd.args]
        /\ response.moves[1][1] # 73
        /\ cmd.args[2] = 9 => response.moves[1][1] = 74
        /\ cmd.args[2] = MAXSIZE => response.moves[1][1] = 90

\* the number of stones of colour C on the board
StoneCount(b, n, C) == Cardinality({p \in OnBoardPoints(n) : b[p] = C})

\* C26: stones are conserved since the last reset: a placement of colour C adds
\* one stone of C and takes from the opponent's stones exactly what it adds to
\* C's capture counter; the counters are even and never decrease.
C26_StoneConservation ==
    [][Placed(cmd', response') =>
        LET C == ArgColor(cmd'.args[1])
            gain == CapOf(C, black_cap', white_cap') - CapOf(C, black_cap, white_cap)
        IN /\ StoneCount(board', size, C) = StoneCount(board, size, C) + 1
           /\ StoneCount(board', size, opponent(C))
                 = StoneCount(board, size, opponent(C)) - gain
           /\ gain >= 0 /\ gain % 2 = 0
           /\ CapOf(opponent(C), black_cap', white_cap')
                 = CapOf(opponent(C), black_cap, white_cap)
      ]_vars

\* C27: gogui-rules_final_result only reads: it changes no part of the board
\* state, and the answer gogui-rules_legal_moves gives after it is the answer
\* it would have given in its place.
C27_FinalResultIsPure ==
    [][cmd'.name = "gogui-rules_final_result" =>
        /\ UNCHANGED grid
        /\ gogui_legal_list(board', size', ko_recapture', game_status')
              = gogui_legal_list(board, size, ko_recapture, game_status)
      ]_vars

(***************************************************************************)
(* cap_process applied once to a drawn board: every filling of the first   *)
(* column, and every choice of bracketed pairs around the centre           *)
(***************************************************************************)
\* the boards of size n with any stones in the first column
ColumnBoards(n) ==
    {[p \in 0..(board_array_size(n) - 1) |->
        IF p \in RunColumn(n) THEN f[p] ELSE EmptyBoardArray(n)[p]] :
            f \in [RunColumn(n) -> {EMPTY, BLACK, WHITE}]}

Centre(n) == coord_to_point((n + 1) \div 2, (n + 1) \div 2, n)

\* the boards of size n where, in each of the 8 directions from the centre, either
\* nothing stands or a pair of one colour and behind it a stone of the other
StarBoards(n) ==
    LET m == (n + 1) \div 2
        arm(f, q) == {dk \in Directions \X (1..3) :
                        /\ f[dk[1]]
                        /\ q = coord_to_point(m + dk[2] * dk[1][1],
                                              m + dk[2] * dk[1][2], n)}
        cell(f, C, q) ==
            IF arm(f, q) = {} THEN EmptyBoardArray(n)[q]
            ELSE IF (CHOOSE dk \in arm(f, q) : TRUE)[2] = 3 THEN C ELSE opponent(C)
    IN {[q \in 0..(board_array_size(n) - 1) |-> cell(f, C, q)] :
            f \in [Directions -> BOOLEAN], C \in {BLACK, WHITE}}

\* the points a stone is put on: those of the first column on a board whose
\* stones all stand there, the centre on the others
CapPoints(b, n) ==
    IF \A q \in OnBoardPoints(n) \ RunColumn(n) : b[q] = EMPTY
    THEN RunColumn(n) ELSE {Centre(n)}

RotInit ==
    /\ size = RotSize
    /\ board \in ColumnBoards(RotSize) \cup StarBoards(RotSize)
    /\ current_player = BLACK
    /\ last_move = NO_POINT
    /\ ko_recapture = NO_POINT
    /\ black_cap = 0
    /\ white_cap = 0
    /\ game_status = "playing"
    /\ running = TRUE
    /\ cmd = [name |-> "", args |-> <<>>]
    /\ response = NoResponse

\* board[point] = color; cap_process(point), once on the board Init drew
CapProcess ==
    /\ cmd.name = ""
    /\ \E point \in CapPoints(board, size), color \in {BLACK, WHITE} :
          /\ board[point] = EMPTY
          /\ LET cp == cap_process([board EXCEPT ![point] = color], size, point,
                                   black_cap, white_cap)
             IN /\ board' = cp.board
                /\ black_cap' = cp.black_cap
                /\ white_cap' = cp.white_cap
          /\ cmd' = [name |-> "cap_process", args |-> <<point, color>>]
          /\ response' = NoResponse
          /\ UNCHANGED <<size, current_player, last_move, ko_recapture,
                         game_status, running>>

RotNext == CapProcess

SpecRot == RotInit /\ [][RotNext]_vars

\* the point p turned by 180 degrees on the board of size n
RotPoint(p, n) == PointAt(n + 1 - RowOf(p, n), n + 1 - ColOf(p, n), n)

\* the board b turned by 180 degrees
Rot180(b, n) ==
    [q \in DOMAIN b |->
        IF OnBoard(RowOf(q, n), ColOf(q, n), n) THEN b[RotPoint(q, n)] ELSE b[q]]

\* C23: cap_process commutes with the 180-degree rotation: on the rotated board
\* and point it leaves the rotation of the board it leaves on the board itself
\* (so the points it removes are the rotation of the points it removes there),
\* and it adds the same to the counters.
C23_RotationSymmetry ==
    [][cmd'.name = "cap_process" =>
        LET p == cmd'.args[1]
            placed == [board EXCEPT ![p] = cmd'.args[2]]
            turned == Rot180(placed, size)
            rot == cap_process(turned, size, RotPoint(p, size), black_cap, white_cap)
        IN /\ rot.board = Rot180(board', size)
           /\ rot.black_cap = black_cap'
           /\ rot.white_cap = white_cap'
      ]_vars

C23_Witness ==
    /\ cmd.name = "cap_process"
    /\ black_cap + white_cap > 0
    /\ board[cmd.args[1]] = cmd.args[2]

\* the 8 directions from the k-th on, the first ones after the last
Shifted(k) ==
    [i \in 1..Len(CapSteps) |-> CapSteps[((i + k - 1) % Len(CapSteps)) + 1]]

Reversed(steps) == [i \in 1..Len(steps) |-> steps[Len(steps) + 1 - i]]

\* the orders of the 8 directions the claim is checked for
Orders ==
    {Shifted(k) : k \in 0..(Len(CapSteps) - 1)}
    \cup {Reversed(Shifted(k)) : k \in 0..(Len(CapSteps) - 1)}

\* cap_process with its 8 blocks in the order steps
cap_process_in(steps, b, n, point, bcap, wcap) ==
    LET bord2D == get_twoD_board(b, n)
        cc == current_coord(point, n)
    IN cap_dirs_in(steps, [board |-> b, black_cap |-> bcap, white_cap |-> wcap],
                   bord2D, cc, At(bord2D, cc), n, 1)

\* C25: every direction of cap_process is tested on the board as it stood
\* right after the placement: the counter grows by 2 for each direction that
\* brackets a pair on that board, and the cells and counters cap_process
\* leaves are the same in whatever order the 8 directions are processed.
C25_SnapshotOrderFree ==
    [][cmd'.name = "cap_process" =>
        LET p == cmd'.args[1]
            C == cmd'.args[2]
            placed == [board EXCEPT ![p] = C]
        IN /\ CapOf(C, black_cap', white_cap')
                 = CapOf(C, black_cap, white_cap) + CaptureCount(board, size, p, C)
           /\ \A steps \in Orders :
                 cap_process_in(steps, placed, size, p, black_cap, white_cap)
                     = [board |-> board', black_cap |-> black_cap',
                        white_cap |-> white_cap']
      ]_vars

C25_Witness ==
    /\ cmd.name = "cap_process"
    /\ cmd.args[1] = Centre(size)
    /\ CapOf(cmd.args[2], black_cap, white_cap) = 2 * Len(CapSteps)

====
